---------------------------- MODULE Spec2Model ----------------------------
(***************************************************************************)
(* A model of the boids simulation of src/src/main.rs: the Parameters      *)
(* resource, the Boid / Calculations / Transform components, and the       *)
(* systems adjust_number_of_boids, flock, handle_mouse, handle_walls, fly, *)
(* parameters_ui and window_resize as the Bevy schedules run them.         *)
(*                                                                         *)
(* f32 values are modelled as sign-magnitude fixed point numbers with      *)
(* Scale quanta per unit, together with the IEEE specials the code can     *)
(* produce: signed zero, infinity and NaN.  Every arithmetic operation is  *)
(* the exact operation rounded to the nearest quantum.                     *)
(***************************************************************************)
EXTENDS Integers, Sequences, FiniteSets, TLC

\* Quanta per unit of the fixed point grid that stands for f32.
Scale == 20

\* Number of boids the Startup schedule spawns (Parameters::default has 512).
InitBoids == 2
\* Largest value the "Number of boids" slider takes in the model.
MaxBoids == 3

---------------------------------------------------------------------------
(* f32 *)

NaN == [s |-> 0, m |-> 0]
Inf(sg) == [s |-> sg, m |-> -1]
\* The finite value q quanta (q an integer); Q(0) is +0.0.
Q(q) == [s |-> IF q < 0 THEN -1 ELSE 1, m |-> IF q < 0 THEN -q ELSE q]
NegZero == [s |-> -1, m |-> 0]

\* a / b rounded to nearest, for a >= 0 and b > 0.
RoundDiv(a, b) == (2 * a + b) \div (2 * b)
\* The literal n (an integer) and the decimal literal n / d.
F(n) == Q(n * Scale)
Dec(n, d) == IF n < 0 THEN Q(-RoundDiv((-n) * Scale, d)) ELSE Q(RoundDiv(n * Scale, d))

IsNaN(a) == a.s = 0
IsInf(a) == a.m = -1
IsZero(a) == a.m = 0 /\ a.s # 0
IsFinite(a) == a.s # 0 /\ a.m >= 0

\* The comparisons of f32: false on NaN, and -0.0 == +0.0.
FEq(a, b) ==
    /\ ~IsNaN(a) /\ ~IsNaN(b)
    /\ IF IsInf(a) \/ IsInf(b) THEN a = b ELSE a.s * a.m = b.s * b.m
FLt(a, b) ==
    /\ ~IsNaN(a) /\ ~IsNaN(b)
    /\ IF IsInf(a) \/ IsInf(b)
       THEN a # b /\ (IF IsInf(a) THEN a.s = -1 ELSE b.s = 1)
       ELSE a.s * a.m < b.s * b.m
FLe(a, b) == FLt(a, b) \/ FEq(a, b)
FGt(a, b) == FLt(b, a)

FNeg(a) == IF IsNaN(a) THEN NaN ELSE [s |-> -a.s, m |-> a.m]

FAdd(a, b) ==
    IF IsNaN(a) \/ IsNaN(b) THEN NaN
    ELSE IF IsInf(a) /\ IsInf(b) THEN (IF a.s = b.s THEN a ELSE NaN)
    ELSE IF IsInf(a) THEN a
    ELSE IF IsInf(b) THEN b
    ELSE LET v == a.s * a.m + b.s * b.m
         IN  IF v # 0 THEN Q(v)
             ELSE IF a.s = -1 /\ b.s = -1 THEN NegZero ELSE Q(0)

FSub(a, b) == FAdd(a, FNeg(b))

FMul(a, b) ==
    IF IsNaN(a) \/ IsNaN(b) THEN NaN
    ELSE IF IsInf(a) \/ IsInf(b)
         THEN (IF IsZero(a) \/ IsZero(b) THEN NaN ELSE Inf(a.s * b.s))
    ELSE [s |-> a.s * b.s, m |-> RoundDiv(a.m * b.m, Scale)]

FDiv(a, b) ==
    IF IsNaN(a) \/ IsNaN(b) THEN NaN
    ELSE IF IsInf(a) THEN (IF IsInf(b) THEN NaN ELSE Inf(a.s * b.s))
    ELSE IF IsInf(b) THEN [s |-> a.s * b.s, m |-> 0]
    ELSE IF b.m = 0 THEN (IF a.m = 0 THEN NaN ELSE Inf(a.s * b.s))
    ELSE [s |-> a.s * b.s, m |-> RoundDiv(a.m * Scale, b.m)]

\* Largest r in lo..hi with r * r <= n (lo * lo <= n < (hi + 1) * (hi + 1)).
RECURSIVE SqrtSearch(_, _, _)
SqrtSearch(n, lo, hi) ==
    IF lo >= hi THEN lo
    ELSE LET mid == (lo + hi + 1) \div 2
         IN  IF mid * mid <= n THEN SqrtSearch(n, mid, hi)
             ELSE SqrtSearch(n, lo, mid - 1)

\* The square root of the natural number n, rounded to nearest.
RSqrt(n) ==
    LET r == SqrtSearch(n, 0, 46340)
    IN  IF n - r * r > r THEN r + 1 ELSE r

FSqrt(a) ==
    IF IsNaN(a) THEN NaN
    ELSE IF a.m = 0 THEN a
    ELSE IF a.s = -1 THEN NaN
    ELSE IF IsInf(a) THEN a
    ELSE Q(RSqrt(a.m * Scale))

\* f32::max: a NaN operand is ignored.
FMax(a, b) ==
    IF IsNaN(a) THEN b
    ELSE IF IsNaN(b) THEN a
    ELSE IF FLt(a, b) THEN b ELSE a

\* f32::signum: 1.0 for +0.0 and above, -1.0 for -0.0 and below, NaN for NaN.
FSignum(a) == IF IsNaN(a) THEN NaN ELSE F(a.s)

\* f32::powf.  Exact at the exponents -1, 0 and 1 and for base 1; piecewise
\* linear in the exponent in between and beyond (pow(1, NaN) = pow(x, 0) = 1).
PowF(b, e) ==
    IF FEq(b, F(1)) \/ IsZero(e) THEN F(1)
    ELSE IF IsNaN(b) \/ IsNaN(e) THEN NaN
    ELSE IF FLt(e, F(0))
         THEN FAdd(F(1), FMul(FSub(F(1), FDiv(F(1), b)), e))
         ELSE FAdd(F(1), FMul(FSub(b, F(1)), e))

---------------------------------------------------------------------------
(* Vec2 (a Transform's translation keeps z = 0 throughout) *)

Vec(x, y) == [x |-> x, y |-> y]
ZERO == Vec(Q(0), Q(0))
VAdd(a, b) == Vec(FAdd(a.x, b.x), FAdd(a.y, b.y))
VSub(a, b) == Vec(FSub(a.x, b.x), FSub(a.y, b.y))
VNeg(a) == Vec(FNeg(a.x), FNeg(a.y))
VMul(a, k) == Vec(FMul(a.x, k), FMul(a.y, k))
VDiv(a, k) == Vec(FDiv(a.x, k), FDiv(a.y, k))
Dot(a, b) == FAdd(FMul(a.x, b.x), FMul(a.y, b.y))
LengthSquared(a) == Dot(a, a)
Length(a) == FSqrt(LengthSquared(a))
Distance(a, b) == Length(VSub(a, b))
VecIsNaN(a) == IsNaN(a.x) \/ IsNaN(a.y)

\* Vec2::clamp_length_max
ClampLengthMax(v, max) ==
    LET length_sq == LengthSquared(v)
    IN  IF FGt(length_sq, FMul(max, max))
        THEN VMul(VDiv(v, FSqrt(length_sq)), max)
        ELSE v

\* A clamp_length that forgets the lower bound.
ClampLengthForgetsMin(v, min, max) == ClampLengthMax(v, max)

\* Vec2::clamp_length
ClampLength(v, min, max) ==
    LET length_sq == LengthSquared(v)
    IN  IF FLt(length_sq, FMul(min, min))
        THEN VMul(VDiv(v, FSqrt(length_sq)), min)
        ELSE IF FGt(length_sq, FMul(max, max))
        THEN VMul(VDiv(v, FSqrt(length_sq)), max)
        ELSE v

\* f32::clamp on one component, as Vec3::clamp applies it (max(min).min(max)).
FMin(a, b) ==
    IF IsNaN(a) THEN b
    ELSE IF IsNaN(b) THEN a
    ELSE IF FLt(b, a) THEN b ELSE a
VClamp(v, lo, hi) ==
    Vec(FMin(FMax(v.x, lo.x), hi.x), FMin(FMax(v.y, lo.y), hi.y))

---------------------------------------------------------------------------
(* Parameters *)

\* Parameters::default, with number_of_boids scaled down to InitBoids.
DefaultParameters ==
    [ window_width     |-> F(100),
      window_height    |-> F(100),
      number_of_boids  |-> InitBoids,
      view_distance    |-> F(75),
      cohesion_force   |-> Dec(25, 10),
      separation_force |-> Dec(18, 10),
      separation_bias  |-> Dec(11, 10),
      alignment_force  |-> Dec(11, 10),
      alignment_bias   |-> Dec(15, 10),
      steering_force   |-> Dec(8, 10),
      fidelity         |-> Dec(9, 10),
      min_speed        |-> F(25),
      max_speed        |-> F(100),
      bounce_off_walls |-> FALSE ]

\* A Range<f32>: start..end, end excluded.
Range(start, end) == [start |-> start, end |-> end]
Contains(r, x) == FLe(r.start, x) /\ FLt(x, r.end)

window_x_range(p) ==
    Range(FDiv(FNeg(p.window_width), F(2)), FDiv(p.window_width, F(2)))
window_y_range(p) ==
    Range(FDiv(FNeg(p.window_height), F(2)), FDiv(p.window_height, F(2)))

max_position(p) ==
    Vec(FDiv(p.window_width, F(2)), FDiv(p.window_width, F(2)))
min_position(p) ==
    Vec(FDiv(FNeg(p.window_height), F(2)), FDiv(FNeg(p.window_height), F(2)))

---------------------------------------------------------------------------
(* Components *)

\* Calculations::default and the state Calculations::reset leaves.
CalculationsDefault ==
    [neighbours |-> 0, cohesion |-> ZERO, separation |-> ZERO, alignment |-> ZERO]

\* A reset that leaves the neighbour count.
ResetKeepsNeighbours(c) ==
    [c EXCEPT !.cohesion = ZERO, !.separation = ZERO, !.alignment = ZERO]

Reset(c) ==
    [c EXCEPT !.neighbours = 0, !.cohesion = ZERO,
              !.separation = ZERO, !.alignment = ZERO]

\* The bundle spawn_boids spawns: Transform, Boid and Calculations.
NewBoid(translation, velocity, weight) ==
    [ translation |-> translation,
      velocity    |-> velocity,
      weight      |-> weight,
      calc        |-> CalculationsDefault ]

\* The draws of thread_rng that spawn_boids makes for one boid, as the model
\* enumerates them: a translation in window_x_range x window_y_range, velocity
\* components in -max_speed..max_speed, and a weight 1 + Exp(20) * 10.
SpawnDraws(p) ==
    { NewBoid(Vec(Q(0), Q(0)), Vec(Q(0), Q(0)), F(1)),
      NewBoid(Vec(window_x_range(p).start, Q(0)),
              Vec(FNeg(p.max_speed), FNeg(p.max_speed)), F(2)),
      NewBoid(Vec(Q(0), window_y_range(p).start),
              Vec(FDiv(p.min_speed, F(5)), Q(0)), F(1)) }

\* spawn_boids: the sequences of how_many spawn commands it can queue.
RECURSIVE spawn_boids(_, _)
spawn_boids(how_many, p) ==
    IF how_many = 0 THEN { <<>> }
    ELSE { Append(rest, b) : rest \in spawn_boids(how_many - 1, p),
                             b \in SpawnDraws(p) }

---------------------------------------------------------------------------
(* flock *)

\* distance.max(0.001): the floor is the smallest positive value of the grid.
DistanceFloor == Q(1)

\* The draws of gen_range(0.0..=1.0) the model enumerates; both ends belong
\* to the inclusive range.
FidelityDraws == { F(0), F(1) }

\* query.iter_combinations_mut(): the pairs <<i, j>>, i < j, in order.
Combinations(n) ==
    LET RECURSIVE From(_, _)
        From(i, j) ==
            IF i >= n THEN <<>>
            ELSE IF j > n THEN From(i + 1, i + 2)
            ELSE <<  <<i, j>>  >> \o From(i, j + 1)
    IN  From(1, 2)

\* One turn of the while loop over the pairs: the boids after the pair
\* <<i, j>> has been fetched with the random draw `draw`.
FlockPair(p, bs, i, j, draw) ==
    LET t1 == bs[i].translation
        t2 == bs[j].translation
        b1 == bs[i]
        b2 == bs[j]
        c1 == bs[i].calc
        c2 == bs[j].calc
        d0 == Distance(t1, t2)
    IN  IF FGt(draw, p.fidelity) THEN bs
        ELSE IF FGt(d0, p.view_distance) THEN bs
        ELSE
        LET distance == FMax(d0, DistanceFloor)
            p1 == t1
            p2 == t2
            separation_factor == FDiv(F(1), PowF(distance, p.separation_bias))
            similarity ==
                FDiv(Dot(b1.velocity, b2.velocity),
                     FMul(Length(b1.velocity), Length(b2.velocity)))
            bias == p.alignment_bias
            alignment_factor ==
                FDiv(PowF(bias, similarity),
                     IF FGt(bias, F(1)) THEN bias ELSE FDiv(F(1), bias))
            b1w == FDiv(FMul(b1.weight, b1.weight), FMul(b2.weight, b2.weight))
            b2w == FDiv(FMul(b2.weight, b2.weight), FMul(b1.weight, b1.weight))
            n1 == [ neighbours |-> c1.neighbours + 1,
                    cohesion   |-> VAdd(c1.cohesion, VMul(p2, b2w)),
                    separation |-> VAdd(c1.separation,
                        VMul(VMul(VSub(p1, p2), separation_factor), b2w)),
                    alignment  |-> VAdd(c1.alignment,
                        VMul(VMul(b2.velocity, alignment_factor), b2w)) ]
            n2 == [ neighbours |-> c2.neighbours + 1,
                    cohesion   |-> VAdd(c2.cohesion, VMul(p1, b1w)),
                    separation |-> VAdd(c2.separation,
                        VMul(VMul(VSub(p2, p1), separation_factor), b1w)),
                    alignment  |-> VAdd(c2.alignment,
                        VMul(VMul(b1.velocity, alignment_factor), b1w)) ]
        IN  [bs EXCEPT ![i].calc = n1, ![j].calc = n2]

\* The while loop: the pairs from the k-th on, draws[k] drawn for the k-th.
RECURSIVE FlockScan(_, _, _, _, _)
FlockScan(p, bs, pairs, draws, k) ==
    IF k > Len(pairs) THEN bs
    ELSE FlockScan(p, FlockPair(p, bs, pairs[k][1], pairs[k][2], draws[k]),
                   pairs, draws, k + 1)

\* One turn of the for loop: a boid with a neighbour steers and is reset.
FlockSteer(p, boid) ==
    LET c == boid.calc
    IN  IF c.neighbours <= 0 THEN boid
        ELSE
        LET cohesion ==
                VNeg(ClampLengthMax(VDiv(c.cohesion, F(c.neighbours)),
                                    p.steering_force))
            separation == ClampLengthMax(c.separation, p.steering_force)
            alignment == ClampLengthMax(c.alignment, p.steering_force)
            steered ==
                VAdd(VAdd(VAdd(boid.velocity, VMul(cohesion, p.cohesion_force)),
                          VMul(separation, p.separation_force)),
                     VMul(alignment, p.alignment_force))
        IN  [boid EXCEPT !.velocity = ClampLength(steered, p.min_speed, p.max_speed),
                         !.calc = Reset(c)]

\* The boids after the while loop, the boids the for loop then steers, and
\* the boids after the for loop.
FlockScanned(p, bs, draws) == FlockScan(p, bs, Combinations(Len(bs)), draws, 1)
Neighboured(scanned) == { i \in 1..Len(scanned) : scanned[i].calc.neighbours > 0 }
FlockSteered(p, scanned) == [i \in 1..Len(scanned) |-> FlockSteer(p, scanned[i])]

\* The draws one call makes: one for each pair fetched.
FlockDraws(bs) == [1..Len(Combinations(Len(bs))) -> FidelityDraws]

---------------------------------------------------------------------------
(* adjust_number_of_boids *)

NoCommands == [spawn |-> <<>>, despawn |-> {}]

\* The indices (from 1) of the boids the Greater arm despawns: the code's
\* enumerate() counts from 0 and despawns where i >= number_of_boids.
DespawnIndicesOffByOne(count, number_of_boids) ==
    { i \in 1..count : i - 1 > number_of_boids }

DespawnIndices(count, number_of_boids) ==
    { i \in 1..count : i - 1 >= number_of_boids }

\* The command queues one call can leave.
adjust_number_of_boids(p, bs) ==
    LET count == Len(bs)
    IN  IF count < p.number_of_boids
        THEN { [spawn |-> sp, despawn |-> {}] :
                   sp \in spawn_boids(p.number_of_boids - count, p) }
        ELSE IF count > p.number_of_boids
        THEN { [spawn |-> <<>>,
                despawn |-> DespawnIndices(count, p.number_of_boids)] }
        ELSE { NoCommands }

\* The boids once the queued commands are applied: despawned entities leave
\* the table, spawned ones are added at its end.
RECURSIVE Without(_, _, _)
Without(bs, gone, i) ==
    IF i > Len(bs) THEN <<>>
    ELSE (IF i \in gone THEN <<>> ELSE << bs[i] >>) \o Without(bs, gone, i + 1)

ApplyCommands(bs, cmds) == Without(bs, cmds.despawn, 1) \o cmds.spawn

---------------------------------------------------------------------------
(* handle_walls *)

\* A handle_walls that takes t = range.end for inside the window.
WallAxisClosedRange(range, bounce_off_walls, t, v) ==
    IF (FLt(t, range.start) \/ FGt(t, range.end)) /\ FEq(FSignum(v), FSignum(t))
    THEN IF bounce_off_walls
         THEN [t |-> t, v |-> FMul(v, F(-1))]
         ELSE [t |-> FMul(t, F(-1)), v |-> v]
    ELSE [t |-> t, v |-> v]

\* A handle_walls that turns the boid around whenever it wraps it.
WallAxisNegatesBoth(range, bounce_off_walls, t, v) ==
    IF ~Contains(range, t) /\ FEq(FSignum(v), FSignum(t))
    THEN IF bounce_off_walls
         THEN [t |-> t, v |-> FMul(v, F(-1))]
         ELSE [t |-> FMul(t, F(-1)), v |-> FMul(v, F(-1))]
    ELSE [t |-> t, v |-> v]

\* One axis of one boid: its coordinate t and velocity component v.
WallAxis(range, bounce_off_walls, t, v) ==
    IF ~Contains(range, t) /\ FEq(FSignum(v), FSignum(t))
    THEN IF bounce_off_walls
         THEN [t |-> t, v |-> FMul(v, F(-1))]
         ELSE [t |-> FMul(t, F(-1)), v |-> v]
    ELSE [t |-> t, v |-> v]

handle_walls_boid(p, boid) ==
    LET ax == WallAxis(window_x_range(p), p.bounce_off_walls,
                       boid.translation.x, boid.velocity.x)
        ay == WallAxis(window_y_range(p), p.bounce_off_walls,
                       boid.translation.y, boid.velocity.y)
    IN  [boid EXCEPT !.translation = Vec(ax.t, ay.t),
                     !.velocity = Vec(ax.v, ay.v)]

handle_walls(p, bs) == [i \in 1..Len(bs) |-> handle_walls_boid(p, bs[i])]

---------------------------------------------------------------------------
(* handle_mouse *)

\* An Option: None, or Some(value).
None == << >>
Some(value) == << value >>
IsSome(option) == Len(option) = 1
Unwrap(option) == option[1]

\* window.cursor_position() mapped to the world: None when the cursor is away.
NoCursor == None
\* The world positions of the cursor the model enumerates.
CursorPositions == { Vec(F(0), F(0)) }
\* buttons.get_pressed().last()
Buttons == { "Left", "Right", "None" }

handle_mouse_boid(p, boid, mouse_position, direction) ==
    LET position == boid.translation
        distance == Distance(position, mouse_position)
    IN  IF FGt(distance, FMul(p.view_distance, F(4))) THEN boid
        ELSE
        LET target == VMul(VSub(mouse_position, position), direction)
            pull == VMul(VMul(VMul(target, p.steering_force), p.cohesion_force),
                         Dec(5, 10))
        IN  [boid EXCEPT !.velocity =
                ClampLengthMax(VAdd(boid.velocity, pull), p.max_speed)]

handle_mouse(p, bs, cursor, button) ==
    IF ~IsSome(cursor) \/ button = "None" THEN bs
    ELSE LET direction == IF button = "Left" THEN F(1) ELSE F(-1)
             mouse_position == Unwrap(cursor)
         IN  [i \in 1..Len(bs) |->
                 handle_mouse_boid(p, bs[i], mouse_position, direction)]

---------------------------------------------------------------------------
(* fly *)

\* The values of time.delta_seconds() the model enumerates.
DeltaSeconds == { F(1) }

fly_boid(boid, delta_seconds) ==
    [boid EXCEPT !.translation =
        Vec(FAdd(boid.translation.x, FMul(boid.velocity.x, delta_seconds)),
            FAdd(boid.translation.y, FMul(boid.velocity.y, delta_seconds)))]

fly(bs, delta_seconds) == [i \in 1..Len(bs) |-> fly_boid(bs[i], delta_seconds)]

---------------------------------------------------------------------------
(* parameters_ui *)

\* The "Number of boids" slider, scaled down from 8..=2048.
BoidsSlider == 1..MaxBoids

\* The Parameters one frame of the panel can leave: untouched, the boids
\* slider moved, or the "Bounce off walls" box toggled.
UiEdits(p) ==
    { p } \cup { [p EXCEPT !.number_of_boids = n] : n \in BoidsSlider }
          \cup { [p EXCEPT !.bounce_off_walls = ~p.bounce_off_walls] }

\* The "Restart" button: every boid is put at a fresh position in the window
\* (the model draws the lower corner of the ranges).
Restart(p, bs) ==
    [i \in 1..Len(bs) |->
        [bs[i] EXCEPT !.translation =
            Vec(window_x_range(p).start, window_y_range(p).start)]]

---------------------------------------------------------------------------
(* window_resize *)

\* resize_reader.read().last(): None when no event came since the last frame.
NoEvent == None
\* The WindowResized events the model enumerates: the primary window's
\* 640 x 480 and the same window turned.
ResizeEvents == { [width |-> F(640), height |-> F(480)],
                  [width |-> F(200), height |-> F(400)] }

window_resize_params(p, e) ==
    [p EXCEPT !.window_width = e.width, !.window_height = e.height]

window_resize_boids(p, bs) ==
    [i \in 1..Len(bs) |->
        [bs[i] EXCEPT !.translation =
            VClamp(bs[i].translation, min_position(p), max_position(p))]]

---------------------------------------------------------------------------
(* The app: main() *)

VARIABLES
    params,     \* the Parameters resource
    boids,      \* the entities with a Boid, in the order queries iterate them
    queue,      \* the commands adjust_number_of_boids queued, not yet applied
    phase,      \* the schedule that is running: "Update", "PostUpdate"; then "FrameEnd"
    done,       \* the systems of Update that have run in this frame
    last,       \* the system that ran last
    observed,   \* the values of Parameters the stages of this frame were given
    reconcile,  \* count and number_of_boids as adjust_number_of_boids last read them
    flocked,    \* the boids flock last found with neighbours > 0
    entry       \* unit specifications: the boids as the call under test found them

vars == << params, boids, queue, phase, done, last, observed, reconcile, flocked, entry >>

\* The systems main() adds to Update, and the order .chain() puts on four of them.
UpdateSystems ==
    { "parameters_ui", "adjust_number_of_boids",
      "flock", "handle_mouse", "handle_walls", "fly" }
Chain == << "flock", "handle_mouse", "handle_walls", "fly" >>

\* A system may start once it has not run in this frame and every system
\* chained before it has.
Ready(system) ==
    /\ phase = "Update"
    /\ system \notin done
    /\ \A k \in 1..Len(Chain) :
        Chain[k] = system => \A h \in 1..(k - 1) : Chain[h] \in done

Ran(system) ==
    /\ done' = done \cup { system }
    /\ last' = system
    /\ UNCHANGED << phase, entry >>

\* The state the Startup schedule leaves: setup has spawned number_of_boids
\* boids; nothing is queued and no system of the first frame has run.
Init ==
    /\ params = DefaultParameters
    /\ boids \in spawn_boids(params.number_of_boids, params)
    /\ queue = NoCommands
    /\ phase = "Update"
    /\ done = {}
    /\ last = "setup"
    /\ observed = {}
    /\ reconcile = [count |-> 0, target |-> 0]
    /\ flocked = {}
    /\ entry = << >>

ParametersUi ==
    /\ Ready("parameters_ui")
    /\ \E edited \in UiEdits(params), restart \in BOOLEAN :
        /\ params' = edited
        /\ boids' = IF restart THEN Restart(edited, boids) ELSE boids
    /\ Ran("parameters_ui")
    /\ UNCHANGED << queue, observed, reconcile, flocked >>

AdjustNumberOfBoids ==
    /\ Ready("adjust_number_of_boids")
    /\ queue' \in adjust_number_of_boids(params, boids)
    /\ reconcile' = [count |-> Len(boids), target |-> params.number_of_boids]
    /\ observed' = observed \cup { params }
    /\ Ran("adjust_number_of_boids")
    /\ UNCHANGED << params, boids, flocked >>

Flock ==
    /\ Ready("flock")
    /\ \E draws \in FlockDraws(boids) :
        LET scanned == FlockScanned(params, boids, draws)
        IN  /\ boids' = FlockSteered(params, scanned)
            /\ flocked' = Neighboured(scanned)
    /\ observed' = observed \cup { params }
    /\ Ran("flock")
    /\ UNCHANGED << params, queue, reconcile >>

HandleMouse ==
    /\ Ready("handle_mouse")
    /\ \E cursor \in { Some(c) : c \in CursorPositions } \cup { NoCursor }, button \in Buttons :
        boids' = handle_mouse(params, boids, cursor, button)
    /\ observed' = observed \cup { params }
    /\ Ran("handle_mouse")
    /\ UNCHANGED << params, queue, reconcile, flocked >>

HandleWalls ==
    /\ Ready("handle_walls")
    /\ boids' = handle_walls(params, boids)
    /\ observed' = observed \cup { params }
    /\ Ran("handle_walls")
    /\ UNCHANGED << params, queue, reconcile, flocked >>

Fly ==
    /\ Ready("fly")
    /\ \E delta_seconds \in DeltaSeconds : boids' = fly(boids, delta_seconds)
    /\ Ran("fly")
    /\ UNCHANGED << params, queue, observed, reconcile, flocked >>

\* The end of Update: the executor applies the queued commands.
ApplyDeferred ==
    /\ phase = "Update"
    /\ done = UpdateSystems
    /\ boids' = ApplyCommands(boids, queue)
    /\ queue' = NoCommands
    /\ phase' = "PostUpdate"
    /\ last' = "apply_deferred"
    /\ UNCHANGED << params, done, observed, reconcile, flocked, entry >>

\* PostUpdate: window_resize with the last event read, if any; the frame ends.
WindowResize ==
    /\ phase = "PostUpdate"
    /\ \E event \in { Some(e) : e \in ResizeEvents } \cup { NoEvent } :
        IF ~IsSome(event)
        THEN UNCHANGED << params, boids >>
        ELSE LET e == Unwrap(event)
             IN  IF /\ FEq(params.window_width, e.width)
                    /\ FEq(params.window_height, e.height)
                 THEN UNCHANGED << params, boids >>
                 ELSE /\ params' = window_resize_params(params, e)
                      /\ boids' = window_resize_boids(params', boids)
    /\ last' = "window_resize"
    /\ phase' = "FrameEnd"
    /\ UNCHANGED << queue, done, observed, reconcile, flocked, entry >>

Next ==
    \/ ParametersUi
    \/ AdjustNumberOfBoids
    \/ Flock
    \/ HandleMouse
    \/ HandleWalls
    \/ Fly
    \/ ApplyDeferred
    \/ WindowResize

\* The first frame of the host loop, from the state Startup leaves.
Spec == Init /\ [][Next]_vars

---------------------------------------------------------------------------
(* flock alone, on the boids setup can spawn, for the values of fidelity *)

\* 0.0 is below the "Fidelity" slider (0.01..=1.0) and is the value the
\* flocking step is specified for at its lower end.
FlockFidelities == { F(0), DefaultParameters.fidelity }

InitFlock ==
    /\ params \in { [DefaultParameters EXCEPT !.fidelity = f] : f \in FlockFidelities }
    /\ boids \in spawn_boids(MaxBoids, params)
    /\ queue = NoCommands
    /\ phase = "Update"
    /\ done = {}
    /\ last = "setup"
    /\ observed = {}
    /\ reconcile = [count |-> 0, target |-> 0]
    /\ flocked = {}
    /\ entry = << >>

FlockCall ==
    /\ last = "setup"
    /\ \E draws \in FlockDraws(boids) :
        LET scanned == FlockScanned(params, boids, draws)
        IN  /\ boids' = FlockSteered(params, scanned)
            /\ flocked' = Neighboured(scanned)
    /\ entry' = boids
    /\ last' = "flock"
    /\ UNCHANGED << params, queue, phase, done, observed, reconcile >>

SpecFlock == InitFlock /\ [][FlockCall]_vars

---------------------------------------------------------------------------
(* handle_walls alone, on one boid at, inside and beyond the window's edges *)

\* One coordinate of the probe: beyond, at and between the ends of the range.
ProbeCoordinates(r) ==
    { FSub(r.start, F(10)), r.start, Q(0), r.end, FAdd(r.end, F(10)) }

\* One velocity component of the probe.
ProbeSpeeds(p) == { FNeg(p.min_speed), NegZero, Q(0), p.min_speed, NaN }

InitWalls ==
    /\ params \in { [DefaultParameters EXCEPT !.bounce_off_walls = b] : b \in BOOLEAN }
    /\ \E x \in ProbeCoordinates(window_x_range(params)),
          y \in ProbeCoordinates(window_y_range(params)),
          vx \in ProbeSpeeds(params), vy \in ProbeSpeeds(params) :
            boids = << NewBoid(Vec(x, y), Vec(vx, vy), F(1)) >>
    /\ queue = NoCommands
    /\ phase = "Update"
    /\ done = {}
    /\ last = "setup"
    /\ observed = {}
    /\ reconcile = [count |-> 0, target |-> 0]
    /\ flocked = {}
    /\ entry = << >>

HandleWallsCall ==
    /\ boids' = handle_walls(params, boids)
    /\ entry' = boids
    /\ last' = "handle_walls"
    /\ UNCHANGED << params, queue, phase, done, observed, reconcile, flocked >>

SpecWalls == InitWalls /\ [][HandleWallsCall]_vars


---------------------------------------------------------------------------
(* Properties *)

N == Len(boids)
VecIsFinite(v) == IsFinite(v.x) /\ IsFinite(v.y)

\* The rounding a clamped length carries: the unit vector is rounded to the
\* grid before it is scaled, one part in Scale of the bound, and one quantum.
Tolerance(bound) == Q(RoundDiv(bound.m, Scale) + 1)
InBand(v, min, max) ==
    /\ VecIsFinite(v)
    /\ FLe(FSub(min, Tolerance(min)), Length(v))
    /\ FLe(Length(v), FAdd(max, Tolerance(max)))

TickStages == { "adjust_number_of_boids", "flock", "handle_mouse", "handle_walls", "fly" }

\* C1: once the commands one call of adjust_number_of_boids queued are
\* applied, there are exactly number_of_boids boids (the value the call read),
\* whether the call found fewer, more or as many.
C1_ReconcileReachesTarget ==
    phase \in { "PostUpdate", "FrameEnd" } => N = reconcile.target

\* C1 witness: the call found more boids than the target and the surplus is gone.
C1_Despawned ==
    /\ phase = "PostUpdate"
    /\ reconcile.count > reconcile.target
    /\ N = reconcile.target

\* C2 as claimed: the stages of a frame run in the order reconcile, flock,
\* pointer, boundary, integrator, and window_resize runs after all of them.
C2_StagesInFixedOrder ==
    /\ "flock" \in done => "adjust_number_of_boids" \in done
    /\ \A k \in 2..Len(Chain) : Chain[k] \in done => Chain[k - 1] \in done
    /\ phase # "Update" => TickStages \subseteq done

\* C3 as claimed: the stages of one frame are all given the same Parameters.
C3_OneSnapshotPerTick == Cardinality(observed) <= 1

C5_ZeroFidelityEvaluatesNothing ==
    (last = "flock" /\ IsZero(params.fidelity)) =>
        (flocked = {} /\ boids = entry)

\* Where a coordinate t lies against a range: beyond the half extent, as the
\* claim has it, and out of the half open range start..end.
BeyondHalfExtent(r, t) == FLt(t, r.start) \/ FGt(t, r.end)
OutOfRange(r, t) == FLt(t, r.start) \/ FLe(r.end, t)
SameSign(v, t) == ~IsNaN(v) /\ ~IsNaN(t) /\ v.s = t.s
Negated(a, b) == b.m = a.m /\ b.s = -a.s

\* What handle_walls is claimed to do on one axis: from coordinate t and
\* velocity component v to t2 and v2, `outside` telling whether t is outside.
AxisEffect(outside, bounce, t, v, t2, v2) ==
    IF outside /\ SameSign(v, t)
    THEN IF bounce THEN t2 = t /\ Negated(v, v2)
                   ELSE Negated(t, t2) /\ v2 = v
    ELSE t2 = t /\ v2 = v

\* C6 as claimed: outside means beyond the half extent.
C6_WallsBeyondHalfExtent ==
    last = "handle_walls" =>
        \A i \in 1..N :
            /\ AxisEffect(BeyondHalfExtent(window_x_range(params), entry[i].translation.x),
                          params.bounce_off_walls,
                          entry[i].translation.x, entry[i].velocity.x,
                          boids[i].translation.x, boids[i].velocity.x)
            /\ AxisEffect(BeyondHalfExtent(window_y_range(params), entry[i].translation.y),
                          params.bounce_off_walls,
                          entry[i].translation.y, entry[i].velocity.y,
                          boids[i].translation.y, boids[i].velocity.y)

\* C6 amended: outside means out of the half open range -extent/2 .. extent/2,
\* so that a boid exactly at +extent/2 counts as outside.  Each axis is changed
\* exactly when the coordinate is outside and the velocity component has its
\* sign; wrap mode negates the coordinate only, reflect mode the component only.
C6_WallsOutOfRange ==
    last = "handle_walls" =>
        \A i \in 1..N :
            /\ AxisEffect(OutOfRange(window_x_range(params), entry[i].translation.x),
                          params.bounce_off_walls,
                          entry[i].translation.x, entry[i].velocity.x,
                          boids[i].translation.x, boids[i].velocity.x)
            /\ AxisEffect(OutOfRange(window_y_range(params), entry[i].translation.y),
                          params.bounce_off_walls,
                          entry[i].translation.y, entry[i].velocity.y,
                          boids[i].translation.y, boids[i].velocity.y)

\* C6 witness: a boid exactly at the upper end of the x range has been wrapped.
C6_WrappedAtEdge ==
    /\ last = "handle_walls"
    /\ ~params.bounce_off_walls
    /\ entry[1].translation.x = window_x_range(params).end
    /\ boids[1].translation.x = FNeg(window_x_range(params).end)

\* C7 as claimed: a resize to another extent leaves every boid inside the new
\* window on both axes; a resize to the stored extent changes nothing.
Inside(p, t) ==
    /\ FLe(FDiv(FNeg(p.window_width), F(2)), t.x)
    /\ FLe(t.x, FDiv(p.window_width, F(2)))
    /\ FLe(FDiv(FNeg(p.window_height), F(2)), t.y)
    /\ FLe(t.y, FDiv(p.window_height, F(2)))
C7_ResizeKeepsBoidsInside ==
    [][ last' = "window_resize" =>
            IF params' # params
            THEN \A i \in 1..Len(boids') : Inside(params', boids'[i].translation)
            ELSE boids' = boids ]_vars

\* C8 as claimed: no NaN reaches a stored velocity.
C8_NoNaNVelocity ==
    \A i \in 1..N : ~VecIsNaN(boids[i].velocity)

\* C9: whenever no system is running, and so at the end of every flocking
\* step, every boid's accumulator is zero: no neighbours and zero sums.
C9_AccumulatorsZero ==
    \A i \in 1..N : boids[i].calc = CalculationsDefault

\* C9 witness: flock has just consumed the accumulators of boids with neighbours.
C9_Consumed ==
    /\ last = "flock"
    /\ flocked # {}
    /\ \A i \in flocked : boids[i].calc = CalculationsDefault

\* C10: right after handle_walls no boid is out of the range on an axis and
\* moving further out on it, and a second handle_walls changes nothing.
C10_WallsSettled ==
    last = "handle_walls" =>
        /\ \A i \in 1..N :
            /\ ~(OutOfRange(window_x_range(params), boids[i].translation.x)
                 /\ SameSign(boids[i].velocity.x, boids[i].translation.x))
            /\ ~(OutOfRange(window_y_range(params), boids[i].translation.y)
                 /\ SameSign(boids[i].velocity.y, boids[i].translation.y))
        /\ handle_walls(params, boids) = boids

\* C10 witness: handle_walls has changed a boid.
C10_Changed ==
    /\ last = "handle_walls"
    /\ boids # entry

=============================================================================
